---- MODULE Spec2Model ----
(***************************************************************************)
(* The GeoJSON geometry codec of package geojson (src/geometry.go):        *)
(* the Geometry struct, its constructors, toPureGeometry / MarshalBSON,    *)
(* UnmarshalGeometry / UnmarshalBSON, decodeGeometry and its extractors,   *)
(* and the seven variant predicates.                                       *)
(*                                                                         *)
(* Documents are the trees bson.Unmarshal hands to decodeGeometry: every   *)
(* value is a record tagged by its Go dynamic type in field k.             *)
(* A float64 of the Geometry is written as the integer of the same value.  *)
(***************************************************************************)
EXTENDS Integers, Sequences, FiniteSets, TLC

VARIABLES
    g,        \* the caller's Geometry value (the receiver of the methods)
    origin,   \* how g got its value: "zero", "constructor" or "decoded"
    clean,    \* TRUE while every UnmarshalBSON call on g has returned nil
    wire,     \* the data MarshalBSON produced from g, NoData when there is none
    arg,      \* the data handed to the last decode
    ret,      \* the *Geometry the last UnmarshalGeometry call returned
    err,      \* the error the last operation returned
    ran,      \* the extractors the last decodeGeometry call invoked
    preds,    \* the results of the last calls of the seven predicates
    op,       \* the last operation
    driver,   \* which omitempty rule the bson driver of the build applies
    input,    \* SpecDecode: the value handed to the function under test
    output,   \* SpecDecode: what the function returned
    fn        \* SpecDecode: the function applied, "none" before the call

vars == <<g, origin, clean, wire, arg, ret, err, ran, preds, op,
          driver, input, output, fn>>

---------------------------------------------------------------------------
(* Bounds *)

MaxLen == 2
MaxSet == 2

---------------------------------------------------------------------------
(* GeometryType and its seven constants *)

GeometryPoint == "Point"
GeometryMultiPoint == "MultiPoint"
GeometryLineString == "LineString"
GeometryMultiLineString == "MultiLineString"
GeometryPolygon == "Polygon"
GeometryMultiPolygon == "MultiPolygon"
GeometryCollection == "GeometryCollection"

---------------------------------------------------------------------------
(* Go values *)

\* interface{} values of a decoded document, tagged by dynamic type
Nil == [k |-> "nil"]
F64(n) == [k |-> "float64", v |-> n]
GoInt(n) == [k |-> "int", v |-> n]
I32(n) == [k |-> "int32", v |-> n]
I64(n) == [k |-> "int64", v |-> n]
Str(s) == [k |-> "string", v |-> s]
Bool(b) == [k |-> "bool", v |-> b]
\* primitive.A
A(s) == [k |-> "A", v |-> s]
\* map[string]interface{}: the key/value pairs, in document order
M(s) == [k |-> "map", v |-> s]
KV(key, val) == [key |-> key, val |-> val]

\* _, ok := object[key]
Has(object, key) ==
    \E i \in 1..Len(object.v) : object.v[i].key = key

\* object[key]: the zero interface value when the key is absent
Get(object, key) ==
    IF Has(object, key)
    THEN object.v[CHOOSE i \in 1..Len(object.v) : object.v[i].key = key].val
    ELSE Nil

\* a slice: nil, or a backing sequence
NilSlice == [nil |-> TRUE, s |-> <<>>]
Slice(s) == [nil |-> FALSE, s |-> s]

\* Geometry{}
ZeroGeometry ==
    [Type |-> "", Point |-> NilSlice, LineString |-> NilSlice,
     Polygon |-> NilSlice, MultiPoint |-> NilSlice,
     MultiLineString |-> NilSlice, MultiPolygon |-> NilSlice,
     Geometries |-> NilSlice]

\* error values: the message and the value it reports (%v)
NoErr == [msg |-> "nil", got |-> Nil]
Err(msg, got) == [msg |-> msg, got |-> got]
Failed(e) == e.msg # "nil"

ErrTypeNotDefined == "type property not defined"
ErrTypeNotString == "type property not string"
ErrNotPosition == "not a valid position"
ErrNotCoordinate == "not a valid coordinate"
ErrNotPositionSet == "not a valid set of positions"
ErrNotPath == "not a valid path"
ErrNotPolygon == "not a valid polygon"
ErrNotGeometries == "not a valid set of geometries"

---------------------------------------------------------------------------
(* Constructors *)

NewPointG(coordinate) ==
    [ZeroGeometry EXCEPT !.Type = GeometryPoint, !.Point = coordinate]

NewMultiPointG(coordinates) ==
    [ZeroGeometry EXCEPT !.Type = GeometryMultiPoint, !.MultiPoint = coordinates]

NewLineStringG(coordinates) ==
    [ZeroGeometry EXCEPT !.Type = GeometryLineString, !.LineString = coordinates]

NewMultiLineStringG(lines) ==
    [ZeroGeometry EXCEPT !.Type = GeometryMultiLineString, !.MultiLineString = lines]

NewPolygonG(polygon) ==
    [ZeroGeometry EXCEPT !.Type = GeometryPolygon, !.Polygon = polygon]

NewMultiPolygonG(polygons) ==
    [ZeroGeometry EXCEPT !.Type = GeometryMultiPolygon, !.MultiPolygon = polygons]

NewGeometryCollectionG(geometries) ==
    [ZeroGeometry EXCEPT !.Type = GeometryCollection, !.Geometries = geometries]

---------------------------------------------------------------------------
(* Decode *)

\* float64(f) of the type switch
float64(coord) == coord.v

\* decodePositionLoop without the int32 case of the type switch
RECURSIVE decodePositionLoop_NoInt32(_, _, _)
decodePositionLoop_NoInt32(coords, i, result) ==
    IF i > Len(coords)
    THEN [val |-> Slice(result), err |-> NoErr]
    ELSE LET coord == coords[i] IN
         IF coord.k \in {"float64", "int", "int64"}
         THEN decodePositionLoop_NoInt32(coords, i + 1, Append(result, coord.v))
         ELSE [val |-> NilSlice, err |-> Err(ErrNotCoordinate, coord)]

RECURSIVE decodePositionLoop(_, _, _)
decodePositionLoop(coords, i, result) ==
    IF i > Len(coords)
    THEN [val |-> Slice(result), err |-> NoErr]
    ELSE LET coord == coords[i] IN
         CASE coord.k = "float64" ->
                decodePositionLoop(coords, i + 1, Append(result, coord.v))
           [] coord.k = "int" ->
                decodePositionLoop(coords, i + 1, Append(result, float64(coord)))
           [] coord.k = "int32" ->
                decodePositionLoop(coords, i + 1, Append(result, float64(coord)))
           [] coord.k = "int64" ->
                decodePositionLoop(coords, i + 1, Append(result, float64(coord)))
           [] OTHER ->
                [val |-> NilSlice, err |-> Err(ErrNotCoordinate, coord)]

\* decodePosition rejecting a position of fewer than two elements
decodePosition_MinTwo(data) ==
    IF data.k # "A" \/ Len(data.v) < 2
    THEN [val |-> NilSlice, err |-> Err(ErrNotPosition, data)]
    ELSE decodePositionLoop(data.v, 1, <<>>)

decodePosition(data) ==
    IF data.k # "A"
    THEN [val |-> NilSlice, err |-> Err(ErrNotPosition, data)]
    ELSE decodePositionLoop(data.v, 1, <<>>)

\* decodePositionSetLoop examining every element and returning the error of
\* the last invalid one
RECURSIVE decodePositionSetLoop_LastError(_, _, _)
decodePositionSetLoop_LastError(points, i, result) ==
    IF i > Len(points)
    THEN [val |-> Slice(result), err |-> NoErr]
    ELSE LET r == decodePosition(points[i])
             rest == decodePositionSetLoop_LastError(points, i + 1,
                                                     Append(result, r.val.s))
         IN  IF Failed(rest.err) THEN rest
             ELSE IF Failed(r.err) THEN [val |-> NilSlice, err |-> r.err]
                  ELSE rest

RECURSIVE decodePositionSetLoop(_, _, _)
decodePositionSetLoop(points, i, result) ==
    IF i > Len(points)
    THEN [val |-> Slice(result), err |-> NoErr]
    ELSE LET r == decodePosition(points[i]) IN
         IF ~Failed(r.err)
         THEN decodePositionSetLoop(points, i + 1, Append(result, r.val.s))
         ELSE [val |-> NilSlice, err |-> r.err]

\* decodePositionSet returning an empty set for a value that is no sequence
decodePositionSet_NoSeqCheck(data) ==
    IF data.k # "A"
    THEN [val |-> Slice(<<>>), err |-> NoErr]
    ELSE decodePositionSetLoop(data.v, 1, <<>>)

decodePositionSet(data) ==
    IF data.k # "A"
    THEN [val |-> NilSlice, err |-> Err(ErrNotPositionSet, data)]
    ELSE decodePositionSetLoop(data.v, 1, <<>>)

RECURSIVE decodePathSetLoop(_, _, _)
decodePathSetLoop(sets, i, result) ==
    IF i > Len(sets)
    THEN [val |-> Slice(result), err |-> NoErr]
    ELSE LET r == decodePositionSet(sets[i]) IN
         IF ~Failed(r.err)
         THEN decodePathSetLoop(sets, i + 1, Append(result, r.val.s))
         ELSE [val |-> NilSlice, err |-> r.err]

decodePathSet(data) ==
    IF data.k # "A"
    THEN [val |-> NilSlice, err |-> Err(ErrNotPath, data)]
    ELSE decodePathSetLoop(data.v, 1, <<>>)

RECURSIVE decodePolygonSetLoop(_, _, _)
decodePolygonSetLoop(polygons, i, result) ==
    IF i > Len(polygons)
    THEN [val |-> Slice(result), err |-> NoErr]
    ELSE LET r == decodePathSet(polygons[i]) IN
         IF ~Failed(r.err)
         THEN decodePolygonSetLoop(polygons, i + 1, Append(result, r.val.s))
         ELSE [val |-> NilSlice, err |-> r.err]

decodePolygonSet(data) ==
    IF data.k # "A"
    THEN [val |-> NilSlice, err |-> Err(ErrNotPolygon, data)]
    ELSE decodePolygonSetLoop(data.v, 1, <<>>)

RECURSIVE decodeGeometry(_, _)
RECURSIVE decodeGeometriesLoop(_, _, _)
RECURSIVE decodeGeometries(_)

\* the switch on g.Type, after g.Type has been assigned
decodePayload(g1, object) ==
    CASE g1.Type = GeometryPoint ->
           LET r == decodePosition(Get(object, "coordinates")) IN
           [g |-> [g1 EXCEPT !.Point = r.val], err |-> r.err,
            ran |-> <<"decodePosition">>]
      [] g1.Type = GeometryMultiPoint ->
           LET r == decodePositionSet(Get(object, "coordinates")) IN
           [g |-> [g1 EXCEPT !.MultiPoint = r.val], err |-> r.err,
            ran |-> <<"decodePositionSet">>]
      [] g1.Type = GeometryLineString ->
           LET r == decodePositionSet(Get(object, "coordinates")) IN
           [g |-> [g1 EXCEPT !.LineString = r.val], err |-> r.err,
            ran |-> <<"decodePositionSet">>]
      [] g1.Type = GeometryMultiLineString ->
           LET r == decodePathSet(Get(object, "coordinates")) IN
           [g |-> [g1 EXCEPT !.MultiLineString = r.val], err |-> r.err,
            ran |-> <<"decodePathSet">>]
      [] g1.Type = GeometryPolygon ->
           LET r == decodePathSet(Get(object, "coordinates")) IN
           [g |-> [g1 EXCEPT !.Polygon = r.val], err |-> r.err,
            ran |-> <<"decodePathSet">>]
      [] g1.Type = GeometryMultiPolygon ->
           LET r == decodePolygonSet(Get(object, "coordinates")) IN
           [g |-> [g1 EXCEPT !.MultiPolygon = r.val], err |-> r.err,
            ran |-> <<"decodePolygonSet">>]
      [] g1.Type = GeometryCollection ->
           LET r == decodeGeometries(Get(object, "geometries")) IN
           [g |-> [g1 EXCEPT !.Geometries = r.val], err |-> r.err,
            ran |-> <<"decodeGeometries">>]
      [] OTHER ->
           [g |-> g1, err |-> NoErr, ran |-> <<>>]

\* decodeGeometry reading object["type"] without its ok flag
decodeGeometry_NoOkCheck(g0, object) ==
    LET t == Get(object, "type") IN
    IF t.k = "string"
    THEN decodePayload([g0 EXCEPT !.Type = t.v], object)
    ELSE [g |-> g0, err |-> Err(ErrTypeNotString, Nil), ran |-> <<>>]

\* decodeGeometry with a default case that rejects an unrecognized type
decodeGeometry_RejectUnknown(g0, object) ==
    IF ~Has(object, "type")
    THEN [g |-> g0, err |-> Err(ErrTypeNotDefined, Nil), ran |-> <<>>]
    ELSE LET t == Get(object, "type") IN
         IF t.k # "string"
         THEN [g |-> g0, err |-> Err(ErrTypeNotString, Nil), ran |-> <<>>]
         ELSE IF t.v \in {GeometryPoint, GeometryMultiPoint, GeometryLineString,
                          GeometryMultiLineString, GeometryPolygon,
                          GeometryMultiPolygon, GeometryCollection}
              THEN decodePayload([g0 EXCEPT !.Type = t.v], object)
              ELSE [g |-> [g0 EXCEPT !.Type = t.v],
                    err |-> Err("unknown geometry type", t), ran |-> <<>>]

\* decodeGeometry(g, object): the Geometry g points to afterwards, the error
\* returned and the extractors invoked
decodeGeometry(g0, object) ==
    IF ~Has(object, "type")
    THEN [g |-> g0, err |-> Err(ErrTypeNotDefined, Nil), ran |-> <<>>]
    ELSE LET t == Get(object, "type") IN
         IF t.k = "string"
         THEN decodePayload([g0 EXCEPT !.Type = t.v], object)
         ELSE [g |-> g0, err |-> Err(ErrTypeNotString, Nil), ran |-> <<>>]

\* the for loop of decodeGeometries: how it ended ("break", "return" or
\* "done"), the geometries appended so far and the error of a return
decodeGeometriesLoop(vs, i, geometries) ==
    IF i > Len(vs)
    THEN [exit |-> "done", geometries |-> geometries, err |-> NoErr]
    ELSE IF vs[i].k # "map"
         THEN [exit |-> "break", geometries |-> geometries, err |-> NoErr]
         ELSE LET r == decodeGeometry(ZeroGeometry, vs[i]) IN
              IF Failed(r.err)
              THEN [exit |-> "return", geometries |-> geometries, err |-> r.err]
              ELSE decodeGeometriesLoop(vs, i + 1, Append(geometries, r.g))

\* decodeGeometries without the length check after the loop
decodeGeometries_NoLenCheck(data) ==
    IF data.k = "A"
    THEN LET l == decodeGeometriesLoop(data.v, 1, <<>>) IN
         IF l.exit = "return"
         THEN [val |-> NilSlice, err |-> l.err]
         ELSE [val |-> Slice(l.geometries), err |-> NoErr]
    ELSE [val |-> NilSlice, err |-> Err(ErrNotGeometries, data)]

\* decodeGeometries taking an absent value (nil) for an empty sequence
decodeGeometries_NilIsEmpty(data) ==
    IF data.k = "nil"
    THEN [val |-> Slice(<<>>), err |-> NoErr]
    ELSE IF data.k = "A"
         THEN LET l == decodeGeometriesLoop(data.v, 1, <<>>) IN
              IF l.exit = "return"
              THEN [val |-> NilSlice, err |-> l.err]
              ELSE IF Len(l.geometries) = Len(data.v)
                   THEN [val |-> Slice(l.geometries), err |-> NoErr]
                   ELSE [val |-> NilSlice, err |-> Err(ErrNotGeometries, data)]
         ELSE [val |-> NilSlice, err |-> Err(ErrNotGeometries, data)]

decodeGeometries(data) ==
    IF data.k = "A"
    THEN LET l == decodeGeometriesLoop(data.v, 1, <<>>) IN
         IF l.exit = "return"
         THEN [val |-> NilSlice, err |-> l.err]
         ELSE IF Len(l.geometries) = Len(data.v)
              THEN [val |-> Slice(l.geometries), err |-> NoErr]
              ELSE [val |-> NilSlice, err |-> Err(ErrNotGeometries, data)]
    ELSE [val |-> NilSlice, err |-> Err(ErrNotGeometries, data)]

---------------------------------------------------------------------------
(* Encode *)

\* an interface{} field of struct geometry: nil, or a slice of a static type
NilIface == [isnil |-> TRUE, typ |-> "", val |-> NilSlice]
Iface(typ, val) == [isnil |-> FALSE, typ |-> typ, val |-> val]

\* toPureGeometry also projecting Point when Type selects no coordinates
toPureGeometry_LeakPoint(g0) ==
    [Type |-> g0.Type,
     Coordinates |->
        CASE g0.Type = GeometryPoint -> Iface("Point", g0.Point)
          [] g0.Type = GeometryMultiPoint -> Iface("[]Point", g0.MultiPoint)
          [] g0.Type = GeometryLineString -> Iface("[]Point", g0.LineString)
          [] g0.Type = GeometryMultiLineString ->
               Iface("[][]Point", g0.MultiLineString)
          [] g0.Type = GeometryPolygon -> Iface("[][]Point", g0.Polygon)
          [] g0.Type = GeometryMultiPolygon ->
               Iface("[][][]Point", g0.MultiPolygon)
          [] OTHER -> IF g0.Point.nil THEN NilIface
                      ELSE Iface("Point", g0.Point),
     Geometries |->
        IF g0.Type = GeometryCollection
        THEN Iface("[]*Geometry", g0.Geometries)
        ELSE NilIface]

toPureGeometry(g0) ==
    [Type |-> g0.Type,
     Coordinates |->
        CASE g0.Type = GeometryPoint -> Iface("Point", g0.Point)
          [] g0.Type = GeometryMultiPoint -> Iface("[]Point", g0.MultiPoint)
          [] g0.Type = GeometryLineString -> Iface("[]Point", g0.LineString)
          [] g0.Type = GeometryMultiLineString ->
               Iface("[][]Point", g0.MultiLineString)
          [] g0.Type = GeometryPolygon -> Iface("[][]Point", g0.Polygon)
          [] g0.Type = GeometryMultiPolygon ->
               Iface("[][][]Point", g0.MultiPolygon)
          [] OTHER -> NilIface,
     Geometries |->
        IF g0.Type = GeometryCollection
        THEN Iface("[]*Geometry", g0.Geometries)
        ELSE NilIface]

\* the two omitempty rules bson drivers apply to an interface{} field: the
\* field is dropped when the value it holds is empty (a slice of length 0),
\* or only when the interface itself is nil
DriverRules == {"emptyValue", "nilInterface"}

omitempty(field, rule) ==
    \/ field.isnil
    \/ rule = "emptyValue" /\ Len(field.val.s) = 0

\* the driver's encoding of Point, []Point, [][]Point and [][][]Point
encodePoint(p) == A([i \in 1..Len(p) |-> F64(p[i])])
encodePoints(ps) == A([i \in 1..Len(ps) |-> encodePoint(ps[i])])
encodePaths(pss) == A([i \in 1..Len(pss) |-> encodePoints(pss[i])])
encodePolygons(psss) == A([i \in 1..Len(psss) |-> encodePaths(psss[i])])

RECURSIVE MarshalDocument(_, _)

\* the driver's encoding of a non-nil interface{} field; a nil slice is null
encodeField(field, rule) ==
    IF field.val.nil THEN Nil
    ELSE CASE field.typ = "Point" -> encodePoint(field.val.s)
           [] field.typ = "[]Point" -> encodePoints(field.val.s)
           [] field.typ = "[][]Point" -> encodePaths(field.val.s)
           [] field.typ = "[][][]Point" -> encodePolygons(field.val.s)
           [] field.typ = "[]*Geometry" ->
                A([i \in 1..Len(field.val.s) |->
                     MarshalDocument(field.val.s[i], rule)])

\* bson.Marshal of struct geometry: the fields in declaration order
bsonMarshal(geo, rule) ==
    M(<<KV("type", Str(geo.Type))>>
      \o (IF omitempty(geo.Coordinates, rule) THEN <<>>
          ELSE <<KV("coordinates", encodeField(geo.Coordinates, rule))>>)
      \o (IF omitempty(geo.Geometries, rule) THEN <<>>
          ELSE <<KV("geometries", encodeField(geo.Geometries, rule))>>))

\* the document MarshalBSON produces
MarshalDocument(g0, rule) == bsonMarshal(toPureGeometry(g0), rule)

---------------------------------------------------------------------------
(* Data handed to the decoders *)

NoData == [kind |-> "none", doc |-> M(<<>>)]
EmptyData == [kind |-> "empty", doc |-> M(<<>>)]
CorruptData == [kind |-> "corrupt", doc |-> M(<<>>)]
Data(doc) == [kind |-> "doc", doc |-> doc]

ErrBson == "bson: invalid document"

\* g.UnmarshalBSON(data)
UnmarshalBSONG(g0, data) ==
    IF data.kind = "empty"
    THEN [g |-> g0, err |-> NoErr, ran |-> <<>>]
    ELSE IF data.kind = "corrupt"
         THEN [g |-> g0, err |-> Err(ErrBson, Nil), ran |-> <<>>]
         ELSE decodeGeometry(g0, data.doc)

NilPtr == [isnil |-> TRUE, g |-> ZeroGeometry]
Ptr(g0) == [isnil |-> FALSE, g |-> g0]

\* UnmarshalGeometry(data) and UnmarshalGeometryRawJSON(data)
UnmarshalGeometryG(data) ==
    LET r == UnmarshalBSONG(ZeroGeometry, data) IN
    IF Failed(r.err)
    THEN [ret |-> NilPtr, err |-> r.err, ran |-> r.ran]
    ELSE [ret |-> Ptr(r.g), err |-> NoErr, ran |-> r.ran]

---------------------------------------------------------------------------
(* Variant predicates *)

IsPoint(g0) == g0.Type = GeometryPoint
IsMultiPoint(g0) == g0.Type = GeometryMultiPoint
IsLineString(g0) == g0.Type = GeometryLineString
\* IsMultiLineString comparing with the tag its comment names
IsMultiLineString_LineStringTag(g0) == g0.Type = GeometryLineString
IsMultiLineString(g0) == g0.Type = GeometryMultiLineString
IsPolygon(g0) == g0.Type = GeometryPolygon
IsMultiPolygon(g0) == g0.Type = GeometryMultiPolygon
IsCollection(g0) == g0.Type = GeometryCollection

---------------------------------------------------------------------------
(* Inputs *)

SeqsUpTo(S, n) == UNION {[1..m -> S] : m \in 0..n}

RecognizedTypes ==
    {GeometryPoint, GeometryMultiPoint, GeometryLineString,
     GeometryMultiLineString, GeometryPolygon, GeometryMultiPolygon,
     GeometryCollection}

CoordinateTypes == RecognizedTypes \ {GeometryCollection}

UnknownTypes == {"Feature", "point", ""}

\* document leaves of every kind decodePosition distinguishes
Leaves ==
    {F64(1), F64(2), I32(1), I64(2), GoInt(1), Str("x"), Bool(TRUE), Nil}

\* values nested one to five levels deep, well formed and not
Level1 == {A(s) : s \in SeqsUpTo(Leaves, MaxLen)}

Elems1 ==
    {A(<<>>), A(<<F64(1), F64(2)>>), A(<<I32(1), I64(2)>>),
     A(<<F64(1), Str("x")>>), F64(1), Nil}

Level2 == {A(s) : s \in SeqsUpTo(Elems1, MaxSet)}

Elems2 ==
    {A(<<>>), A(<<A(<<F64(1), F64(2)>>)>>),
     A(<<A(<<I32(1), I64(2)>>), A(<<>>)>>), A(<<A(<<Str("x")>>)>>),
     A(<<F64(1), F64(2)>>), F64(1)}

Level3 == {A(s) : s \in SeqsUpTo(Elems2, MaxSet)}

Elems3 ==
    {A(<<>>), A(<<A(<<A(<<F64(1), F64(2)>>)>>)>>), A(<<A(<<>>)>>),
     A(<<A(<<F64(1)>>)>>), A(<<A(<<A(<<A(<<F64(1)>>)>>)>>)>>), Str("x")}

Level4 == {A(s) : s \in SeqsUpTo(Elems3, MaxSet)}

CoordinateValues ==
    Leaves \cup Level1 \cup Level2 \cup Level3 \cup Level4 \cup {M(<<>>)}

PointDoc ==
    M(<<KV("type", Str(GeometryPoint)),
        KV("coordinates", A(<<F64(1), F64(2)>>))>>)

LineStringDoc ==
    M(<<KV("type", Str(GeometryLineString)),
        KV("coordinates", A(<<A(<<I32(1), I32(2)>>), A(<<I32(2), I32(1)>>)>>))>>)

BadPointDoc ==
    M(<<KV("type", Str(GeometryPoint)), KV("coordinates", Str("x"))>>)

NoTypeDoc == M(<<KV("coordinates", A(<<I32(1), I32(2)>>))>>)

UnknownDoc ==
    M(<<KV("type", Str("Feature")), KV("coordinates", A(<<I32(1), I32(2)>>))>>)

CollectionDoc ==
    M(<<KV("type", Str(GeometryCollection)),
        KV("geometries", A(<<PointDoc, LineStringDoc>>))>>)

BadCollectionDoc ==
    M(<<KV("type", Str(GeometryCollection)),
        KV("geometries", A(<<PointDoc, F64(1)>>))>>)

\* members of a geometries sequence: documents that decode, documents that
\* do not, and values that are no documents
GeometryElems ==
    {PointDoc, LineStringDoc, BadPointDoc, NoTypeDoc, UnknownDoc,
     CollectionDoc, BadCollectionDoc, F64(1)}

GeometriesValues ==
    {A(s) : s \in SeqsUpTo(GeometryElems, MaxSet)}
        \cup {Nil, Str("x"), PointDoc}

\* the values of a type key: absent ("none"), strings and non-strings
TypeFields ==
    {<<>>} \cup {<<KV("type", Str(t))>> : t \in RecognizedTypes \cup UnknownTypes}
        \cup {<<KV("type", I32(1))>>, <<KV("type", Nil)>>,
              <<KV("type", A(<<Str(GeometryPoint)>>))>>}

Documents ==
    {M(t \o c) :
        t \in TypeFields,
        c \in {<<>>} \cup {<<KV("coordinates", x)>> : x \in CoordinateValues}}
    \cup
    {M(t \o c \o e) :
        t \in TypeFields,
        c \in {<<>>, <<KV("coordinates", A(<<F64(1), F64(2)>>))>>},
        e \in {<<KV("geometries", x)>> : x \in GeometriesValues}}

DecodeInputs == CoordinateValues \cup GeometriesValues \cup Documents

---------------------------------------------------------------------------
(* Spec: a caller that builds a Geometry, decodes documents into it,       *)
(* encodes it, decodes what it encoded and asks for its variant.           *)
(* arg, ret, err, ran and preds are the outputs of the last operation;     *)
(* wire is the encoding of the current g and is dropped when g changes.    *)

\* payloads handed to the constructors
Positions == SeqsUpTo({1, 2}, MaxLen)
PointArgs == {NilSlice} \cup {Slice(p) : p \in Positions}

PositionSample == {<<1, 2>>, <<2>>}
PointsArgs ==
    {NilSlice} \cup {Slice(ps) : ps \in SeqsUpTo(PositionSample, MaxSet)}

PathSample == {<<<<1, 2>>, <<2, 1>>>>, <<>>}
PathsArgs ==
    {NilSlice} \cup {Slice(pss) : pss \in SeqsUpTo(PathSample, MaxSet)}

PolygonSample == {<<<<<<1, 2>>>>>>, <<>>}
PolygonsArgs ==
    {NilSlice} \cup {Slice(x) : x \in SeqsUpTo(PolygonSample, MaxSet)}

ChildSample ==
    {NewPointG(Slice(<<1, 2>>)),
     NewLineStringG(Slice(<<<<1, 2>>, <<2, 1>>>>)),
     NewGeometryCollectionG(Slice(<<NewPointG(Slice(<<2>>))>>))}
GeometriesArgs ==
    {NilSlice} \cup {Slice(gs) : gs \in SeqsUpTo(ChildSample, MaxSet)}

\* data decoded into the caller's Geometry
TargetData ==
    {Data(PointDoc), Data(LineStringDoc), Data(BadPointDoc), Data(NoTypeDoc),
     Data(UnknownDoc), Data(CollectionDoc), EmptyData, CorruptData}

\* data decoded by UnmarshalGeometry besides what MarshalBSON produced
StandaloneData == {Data(BadPointDoc), Data(NoTypeDoc)}

NoPreds ==
    [IsPoint |-> FALSE, IsMultiPoint |-> FALSE, IsLineString |-> FALSE,
     IsMultiLineString |-> FALSE, IsPolygon |-> FALSE,
     IsMultiPolygon |-> FALSE, IsCollection |-> FALSE]

Init ==
    /\ g = ZeroGeometry
    /\ origin = "zero"
    /\ clean = TRUE
    /\ wire = NoData
    /\ arg = NoData
    /\ ret = NilPtr
    /\ err = NoErr
    /\ ran = <<>>
    /\ preds = NoPreds
    /\ op = "init"
    /\ driver \in DriverRules
    /\ input = Nil
    /\ output = [none |-> TRUE]
    /\ fn = "none"

decodeVars == <<input, output, fn>>

\* what a constructor call leaves besides the new Geometry; the caller
\* builds its Geometry first, or keeps the zero value
Built(name) ==
    /\ op = "init"
    /\ origin' = "constructor"
    /\ clean' = TRUE
    /\ wire' = NoData
    /\ arg' = NoData
    /\ ret' = NilPtr
    /\ err' = NoErr
    /\ ran' = <<>>
    /\ preds' = NoPreds
    /\ op' = name
    /\ UNCHANGED <<driver, decodeVars>>

NewPoint ==
    /\ \E coordinate \in PointArgs : g' = NewPointG(coordinate)
    /\ Built("NewPoint")

NewMultiPoint ==
    /\ \E coordinates \in PointsArgs : g' = NewMultiPointG(coordinates)
    /\ Built("NewMultiPoint")

NewLineString ==
    /\ \E coordinates \in PointsArgs : g' = NewLineStringG(coordinates)
    /\ Built("NewLineString")

NewMultiLineString ==
    /\ \E lines \in PathsArgs : g' = NewMultiLineStringG(lines)
    /\ Built("NewMultiLineString")

NewPolygon ==
    /\ \E polygon \in PathsArgs : g' = NewPolygonG(polygon)
    /\ Built("NewPolygon")

NewMultiPolygon ==
    /\ \E polygons \in PolygonsArgs : g' = NewMultiPolygonG(polygons)
    /\ Built("NewMultiPolygon")

NewGeometryCollection ==
    /\ \E geometries \in GeometriesArgs :
          g' = NewGeometryCollectionG(geometries)
    /\ Built("NewGeometryCollection")

\* g.MarshalBSON(): bson.Marshal(g.toPureGeometry())
MarshalBSON ==
    /\ wire' = Data(MarshalDocument(g, driver))
    /\ arg' = NoData
    /\ ret' = NilPtr
    /\ err' = NoErr
    /\ ran' = <<>>
    /\ preds' = NoPreds
    /\ op' = "MarshalBSON"
    /\ UNCHANGED <<g, origin, clean, driver, decodeVars>>

\* UnmarshalGeometry(data) and UnmarshalGeometryRawJSON(data), which differ
\* in the driver call that turns the bytes into the document
UnmarshalGeometry == \E data \in {wire} \cup StandaloneData :
    /\ data.kind # "none"
    /\ LET r == UnmarshalGeometryG(data) IN
        /\ ret' = r.ret
        /\ err' = r.err
        /\ ran' = r.ran
    /\ arg' = data
    /\ preds' = NoPreds
    /\ op' = "UnmarshalGeometry"
    /\ UNCHANGED <<g, origin, clean, wire, driver, decodeVars>>

\* g.UnmarshalBSON(data) on the caller's Geometry
UnmarshalBSON == \E data \in TargetData :
    /\ data.kind # "none"
    /\ LET r == UnmarshalBSONG(g, data) IN
        /\ g' = r.g
        /\ err' = r.err
        /\ ran' = r.ran
        /\ clean' = (clean /\ ~Failed(r.err))
    /\ origin' = "decoded"
    /\ wire' = NoData
    /\ arg' = data
    /\ ret' = NilPtr
    /\ preds' = NoPreds
    /\ op' = "UnmarshalBSON"
    /\ UNCHANGED <<driver, decodeVars>>

\* g.IsPoint(), ..., g.IsCollection()
Predicates ==
    /\ preds' = [IsPoint |-> IsPoint(g), IsMultiPoint |-> IsMultiPoint(g),
                 IsLineString |-> IsLineString(g),
                 IsMultiLineString |-> IsMultiLineString(g),
                 IsPolygon |-> IsPolygon(g),
                 IsMultiPolygon |-> IsMultiPolygon(g),
                 IsCollection |-> IsCollection(g)]
    /\ arg' = NoData
    /\ ret' = NilPtr
    /\ err' = NoErr
    /\ ran' = <<>>
    /\ op' = "Predicates"
    /\ UNCHANGED <<g, origin, clean, wire, driver, decodeVars>>

Next ==
    \/ NewPoint
    \/ NewMultiPoint
    \/ NewLineString
    \/ NewMultiLineString
    \/ NewPolygon
    \/ NewMultiPolygon
    \/ NewGeometryCollection
    \/ MarshalBSON
    \/ UnmarshalGeometry
    \/ UnmarshalBSON
    \/ Predicates

Spec == Init /\ [][Next]_vars

---------------------------------------------------------------------------
(* SpecDecode: each decoding function applied once to one input *)

InitDecode ==
    /\ input \in DecodeInputs
    /\ output = [none |-> TRUE]
    /\ fn = "none"
    /\ g = ZeroGeometry
    /\ origin = "zero"
    /\ clean = TRUE
    /\ wire = NoData
    /\ arg = NoData
    /\ ret = NilPtr
    /\ err = NoErr
    /\ ran = <<>>
    /\ preds = NoPreds
    /\ op = "init"
    /\ driver = "emptyValue"

lifecycle == <<g, origin, clean, wire, arg, ret, err, ran, preds,
               op, driver>>

IsDocument(x) == x.k = "map" /\ Len(x.v) > 0

CallDecodeGeometry ==
    /\ fn = "none"
    /\ input.k = "map"
    /\ output' = decodeGeometry(ZeroGeometry, input)
    /\ fn' = "decodeGeometry"
    /\ UNCHANGED <<input, lifecycle>>

CallDecodePosition ==
    /\ fn = "none"
    /\ ~IsDocument(input)
    /\ output' = decodePosition(input)
    /\ fn' = "decodePosition"
    /\ UNCHANGED <<input, lifecycle>>

CallDecodePositionSet ==
    /\ fn = "none"
    /\ ~IsDocument(input)
    /\ output' = decodePositionSet(input)
    /\ fn' = "decodePositionSet"
    /\ UNCHANGED <<input, lifecycle>>

CallDecodePathSet ==
    /\ fn = "none"
    /\ ~IsDocument(input)
    /\ output' = decodePathSet(input)
    /\ fn' = "decodePathSet"
    /\ UNCHANGED <<input, lifecycle>>

CallDecodePolygonSet ==
    /\ fn = "none"
    /\ ~IsDocument(input)
    /\ output' = decodePolygonSet(input)
    /\ fn' = "decodePolygonSet"
    /\ UNCHANGED <<input, lifecycle>>

CallDecodeGeometries ==
    /\ fn = "none"
    /\ ~IsDocument(input) \/ input = PointDoc
    /\ output' = decodeGeometries(input)
    /\ fn' = "decodeGeometries"
    /\ UNCHANGED <<input, lifecycle>>

NextDecode ==
    \/ CallDecodeGeometry
    \/ CallDecodePosition
    \/ CallDecodePositionSet
    \/ CallDecodePathSet
    \/ CallDecodePolygonSet
    \/ CallDecodeGeometries

SpecDecode == InitDecode /\ [][NextDecode]_vars

---------------------------------------------------------------------------
(* Properties of the decoding functions, checked under SpecDecode *)

PayloadFields ==
    {"Point", "LineString", "Polygon", "MultiPoint", "MultiLineString",
     "MultiPolygon", "Geometries"}

\* the payload fields of g0 that hold at least one element
Populated(g0) == {f \in PayloadFields : Len(g0[f].s) > 0}

\* the payload field toPureGeometry and decodeGeometry select for a type
SelectedField(t) ==
    CASE t = GeometryPoint -> {"Point"}
      [] t = GeometryMultiPoint -> {"MultiPoint"}
      [] t = GeometryLineString -> {"LineString"}
      [] t = GeometryMultiLineString -> {"MultiLineString"}
      [] t = GeometryPolygon -> {"Polygon"}
      [] t = GeometryMultiPolygon -> {"MultiPolygon"}
      [] t = GeometryCollection -> {"Geometries"}
      [] OTHER -> {}

HasStringType(object) ==
    Has(object, "type") /\ Get(object, "type").k = "string"

\* C3: decodeGeometry fails with "type property not defined" when the
\* document has no type key and with "type property not string" when the
\* type value is not a string, whatever else the document holds; in both
\* cases no extractor runs and the target is left as it was.
C3_TypeTagValidation ==
    fn = "decodeGeometry" =>
        /\ ~Has(input, "type") =>
              /\ output.err.msg = ErrTypeNotDefined
              /\ output.ran = <<>>
              /\ output.g = ZeroGeometry
        /\ Has(input, "type") /\ Get(input, "type").k # "string" =>
              /\ output.err.msg = ErrTypeNotString
              /\ output.ran = <<>>
              /\ output.g = ZeroGeometry

C3_Witness ==
    /\ fn = "decodeGeometry"
    /\ ~Has(input, "type")
    /\ Get(input, "coordinates") = A(<<F64(1), F64(2)>>)
    /\ Has(input, "geometries")
    /\ output.err.msg = ErrTypeNotDefined

Max(S) == CHOOSE x \in S : \A y \in S : y <= x

\* the nesting depth of a value: 0 for a value that is no sequence
RECURSIVE Depth(_)
Depth(x) ==
    IF x.k # "A" THEN 0
    ELSE IF Len(x.v) = 0 THEN 1
         ELSE 1 + Max({Depth(x.v[i]) : i \in 1..Len(x.v)})

RequiredDepth(t) ==
    CASE t = GeometryPoint -> 1
      [] t \in {GeometryMultiPoint, GeometryLineString} -> 2
      [] t \in {GeometryMultiLineString, GeometryPolygon} -> 3
      [] t = GeometryMultiPolygon -> 4

\* every value above level d of x is a sequence
RECURSIVE SequencesDownTo(_, _)
SequencesDownTo(x, d) ==
    \/ d = 0
    \/ x.k = "A" /\ \A i \in 1..Len(x.v) : SequencesDownTo(x.v[i], d - 1)

DecodesCoordinates ==
    /\ fn = "decodeGeometry"
    /\ HasStringType(input)
    /\ Get(input, "type").v \in CoordinateTypes

NumericKinds == {"float64", "int", "int32", "int64"}

\* the position with every numeric element in its float64 representation
AllFloat(x) ==
    A([i \in 1..Len(x.v) |->
         IF x.v[i].k \in NumericKinds THEN F64(x.v[i].v) ELSE x.v[i]])

\* C7: decodePosition turns a sequence of float64, int, int32 and int64
\* leaves into the floats of the same values, the same result as for the
\* sequence with every element a float64; a leaf of any other kind makes it
\* fail.
C7_NumericCoercion ==
    fn = "decodePosition" /\ input.k = "A" =>
        IF \A i \in 1..Len(input.v) : input.v[i].k \in NumericKinds
        THEN /\ ~Failed(output.err)
             /\ output.val = Slice([i \in 1..Len(input.v) |-> input.v[i].v])
             /\ output = decodePosition(AllFloat(input))
        ELSE Failed(output.err) /\ output.val = NilSlice

C7_Witness ==
    /\ fn = "decodePosition"
    /\ input = A(<<I32(1), F64(2)>>)
    /\ output = decodePosition(A(<<F64(1), F64(2)>>))
    /\ output.val.s = <<1, 2>>

\* element i of a geometries sequence is a document that decodes
MemberDecodes(x) ==
    x.k = "map" /\ ~Failed(decodeGeometry(ZeroGeometry, x).err)

C9_UnknownTypePassThrough ==
    fn = "decodeGeometry" /\ HasStringType(input)
        /\ Get(input, "type").v \notin RecognizedTypes =>
            /\ ~Failed(output.err)
            /\ output.g.Type = Get(input, "type").v
            /\ Populated(output.g) = {}
            /\ output.ran = <<>>

C9_Witness ==
    /\ fn = "decodeGeometry"
    /\ HasStringType(input)
    /\ Get(input, "type").v = "Feature"
    /\ Get(input, "coordinates") = Str("x")
    /\ output.err = NoErr
    /\ output.g.Type = "Feature"

\* the level a decoding function validates: 1 for a position, up to 4 for
\* a polygon set
LevelOf(name) ==
    CASE name = "decodePosition" -> 1
      [] name = "decodePositionSet" -> 2
      [] name = "decodePathSet" -> 3
      [] name = "decodePolygonSet" -> 4

LevelError(level) ==
    CASE level = 1 -> ErrNotPosition
      [] level = 2 -> ErrNotPositionSet
      [] level = 3 -> ErrNotPath
      [] level = 4 -> ErrNotPolygon

Min(S) == CHOOSE x \in S : \A y \in S : x <= y

\* the error a depth-first walk of x in document order meets first, x being
\* validated at the given level; NoErr when the walk meets none
RECURSIVE FirstError(_, _)
FirstError(x, level) ==
    IF x.k # "A" THEN Err(LevelError(level), x)
    ELSE LET bad == IF level = 1
                    THEN {i \in 1..Len(x.v) : x.v[i].k \notin NumericKinds}
                    ELSE {i \in 1..Len(x.v) :
                            Failed(FirstError(x.v[i], level - 1))}
         IN  IF bad = {} THEN NoErr
             ELSE IF level = 1 THEN Err(ErrNotCoordinate, x.v[Min(bad)])
                  ELSE FirstError(x.v[Min(bad)], level - 1)

\* the indices of the elements of x that are invalid one level below
InvalidElements(x, level) ==
    {i \in 1..Len(x.v) : Failed(FirstError(x.v[i], level - 1))}

SetDecoders == {"decodePositionSet", "decodePathSet", "decodePolygonSet"}

\* the decoding function that produced output, applied to another value
Redecode(x) ==
    CASE fn = "decodePositionSet" -> decodePositionSet(x)
      [] fn = "decodePathSet" -> decodePathSet(x)
      [] fn = "decodePolygonSet" -> decodePolygonSet(x)

\* C11: decodePositionSet, decodePathSet and decodePolygonSet fail with
\* their own level's error on a value that is no sequence; on a sequence
\* with invalid elements they return nil and the error of the lowest-index
\* invalid element, itself the first one met depth-first in document
\* order, and the elements after it have no effect on the result.
C11_FirstFailure ==
    fn \in SetDecoders =>
        LET level == LevelOf(fn) IN
        /\ output.err = FirstError(input, level)
        /\ input.k # "A" =>
              output = [val |-> NilSlice, err |-> Err(LevelError(level), input)]
        /\ input.k = "A" /\ InvalidElements(input, level) # {} =>
              LET j == Min(InvalidElements(input, level)) IN
              /\ output.val = NilSlice
              /\ Failed(output.err)
              /\ output.err = FirstError(input.v[j], level - 1)
              /\ output = Redecode(A(SubSeq(input.v, 1, j)))

C11_Witness ==
    /\ fn = "decodePositionSet"
    /\ input = A(<<A(<<F64(1), Str("x")>>), F64(1)>>)
    /\ Cardinality(InvalidElements(input, 2)) = 2
    /\ output.val = NilSlice
    /\ output.err = Err(ErrNotCoordinate, Str("x"))

\* the key decodeGeometry reads the payload of a recognized type from
PayloadKey(t) == IF t = GeometryCollection THEN "geometries" ELSE "coordinates"

\* C12: decodePosition accepts a sequence of numbers of any length, 0 and 1
\* included, and returns a position of as many elements holding the same
\* values in the same order; decodePositionSet, decodePathSet,
\* decodePolygonSet and decodeGeometries accept the empty sequence and
\* return an empty, non-nil result, so a document of a recognized type
\* whose payload is the empty sequence decodes to an empty payload.
C12_NoArityCheck ==
    /\ fn = "decodePosition" /\ input.k = "A"
          /\ (\A i \in 1..Len(input.v) : input.v[i].k \in NumericKinds) =>
            /\ ~Failed(output.err)
            /\ ~output.val.nil
            /\ Len(output.val.s) = Len(input.v)
            /\ \A i \in 1..Len(input.v) : output.val.s[i] = input.v[i].v
    /\ fn \in SetDecoders \cup {"decodeGeometries"} /\ input = A(<<>>) =>
            output = [val |-> Slice(<<>>), err |-> NoErr]
    /\ fn = "decodeGeometry" /\ HasStringType(input)
          /\ Get(input, "type").v \in RecognizedTypes
          /\ Get(input, PayloadKey(Get(input, "type").v)) = A(<<>>) =>
            /\ ~Failed(output.err)
            /\ Populated(output.g) = {}
            /\ \A f \in SelectedField(output.g.Type) :
                  output.g[f] = Slice(<<>>)

C12_Witness ==
    /\ fn = "decodePosition"
    /\ input = A(<<I32(1)>>)
    /\ output = [val |-> Slice(<<1>>), err |-> NoErr]

\* the error of the extractor a recognized type runs, given a value that
\* is no sequence
ExtractorError(t) ==
    IF t = GeometryCollection THEN ErrNotGeometries
    ELSE LevelError(RequiredDepth(t))

\* a document of a recognized type without the key that type reads
LacksPayloadKey ==
    /\ fn = "decodeGeometry"
    /\ HasStringType(input)
    /\ Get(input, "type").v \in RecognizedTypes
    /\ ~Has(input, PayloadKey(Get(input, "type").v))

\* C14: decoding a document of a recognized type that lacks the key its
\* type reads fails, with the error its extractor gives for nil, and
\* leaves the payload empty, whether or not the other key is present.
C14_MissingPayloadKey ==
    LacksPayloadKey =>
        LET t == Get(input, "type").v IN
        /\ Failed(output.err)
        /\ output.err = Err(ExtractorError(t), Nil)
        /\ Len(output.ran) = 1
        /\ Populated(output.g) = {}
        /\ \A f \in SelectedField(t) : output.g[f] = NilSlice

C14_Witness ==
    /\ LacksPayloadKey
    /\ Get(input, "type").v = GeometryCollection
    /\ Get(input, "coordinates") = A(<<F64(1), F64(2)>>)
    /\ output.err = Err(ErrNotGeometries, Nil)

---------------------------------------------------------------------------
(* Properties of the caller's Geometry, checked under Spec *)

CoordinateFields == PayloadFields \ {"Geometries"}

\* the same Type and the same payload, element by element at every level
\* (a nil slice and an empty one both hold no element)
RECURSIVE SameGeometry(_, _)
SameGeometry(a, b) ==
    /\ a.Type = b.Type
    /\ \A f \in CoordinateFields : a[f].s = b[f].s
    /\ Len(a.Geometries.s) = Len(b.Geometries.s)
    /\ \A i \in 1..Len(a.Geometries.s) :
          SameGeometry(a.Geometries.s[i], b.Geometries.s[i])

\* the last operation decoded what MarshalBSON made of a constructor's value
RoundTripped ==
    /\ op = "UnmarshalGeometry"
    /\ origin = "constructor"
    /\ wire.kind = "doc"
    /\ arg = wire

\* C1: decoding the document MarshalBSON produced from a Geometry built by
\* a constructor succeeds and returns a Geometry equal to it.
C1_RoundTrip ==
    RoundTripped =>
        /\ ~Failed(err)
        /\ ~ret.isnil
        /\ SameGeometry(ret.g, g)

\* the keys of a document, in order
Keys(object) == [i \in 1..Len(object.v) |-> object.v[i].key]

\* C2: the document MarshalBSON produces has type as its first key,
\* followed by exactly one payload key: coordinates for the six
\* coordinate-bearing types, geometries for a GeometryCollection.
C2_PayloadKey ==
    op = "MarshalBSON" =>
        /\ Keys(wire.doc)[1] = "type"
        /\ g.Type \in CoordinateTypes =>
              Keys(wire.doc) = <<"type", "coordinates">>
        /\ g.Type = GeometryCollection =>
              Keys(wire.doc) = <<"type", "geometries">>

\* C5: a decode that returns an error returns no Geometry, and leaves in
\* the Geometry it was asked to fill neither the Type nor a payload of the
\* document that failed.
C5_AllOrNothing ==
    [][Failed(err') =>
          /\ op' = "UnmarshalGeometry" => ret'.isnil
          /\ op' = "UnmarshalBSON" =>
                /\ g'.Type = g.Type
                /\ \A f \in PayloadFields :
                      g'[f].s = g[f].s \/ Len(g'[f].s) = 0]_vars

\* C6: as long as every decode into it has succeeded, a Geometry has no
\* payload field populated other than the one its Type selects.
C6_SinglePayload ==
    clean => Populated(g) \subseteq SelectedField(g.Type)

PredicateTags ==
    [IsPoint |-> GeometryPoint, IsMultiPoint |-> GeometryMultiPoint,
     IsLineString |-> GeometryLineString,
     IsMultiLineString |-> GeometryMultiLineString,
     IsPolygon |-> GeometryPolygon, IsMultiPolygon |-> GeometryMultiPolygon,
     IsCollection |-> GeometryCollection]

PredicatesAgreeWithType ==
    /\ \A p \in DOMAIN PredicateTags : preds[p] <=> (g.Type = PredicateTags[p])
    /\ Cardinality({p \in DOMAIN PredicateTags : preds[p]}) =
          IF g.Type \in RecognizedTypes THEN 1 ELSE 0

Projection(g0) ==
    [Type |-> g0.Type,
     Point |-> IF "Point" \in SelectedField(g0.Type)
               THEN g0.Point ELSE NilSlice,
     LineString |-> IF "LineString" \in SelectedField(g0.Type)
                    THEN g0.LineString ELSE NilSlice,
     Polygon |-> IF "Polygon" \in SelectedField(g0.Type)
                 THEN g0.Polygon ELSE NilSlice,
     MultiPoint |-> IF "MultiPoint" \in SelectedField(g0.Type)
                    THEN g0.MultiPoint ELSE NilSlice,
     MultiLineString |-> IF "MultiLineString" \in SelectedField(g0.Type)
                         THEN g0.MultiLineString ELSE NilSlice,
     MultiPolygon |-> IF "MultiPolygon" \in SelectedField(g0.Type)
                      THEN g0.MultiPolygon ELSE NilSlice,
     Geometries |-> IF "Geometries" \in SelectedField(g0.Type)
                    THEN g0.Geometries ELSE NilSlice]

\* payloads to put in the fields a Type does not select
FieldSamples ==
    [Point |-> {Slice(<<>>), Slice(<<2, 1>>)},
     LineString |-> {Slice(<<>>), Slice(<<<<2, 1>>>>)},
     MultiPoint |-> {Slice(<<>>), Slice(<<<<2, 1>>>>)},
     Polygon |-> {Slice(<<>>), Slice(<<<<<<2, 1>>>>>>)},
     MultiLineString |-> {Slice(<<>>), Slice(<<<<<<2, 1>>>>>>)},
     MultiPolygon |-> {Slice(<<>>), Slice(<<<<<<<<2, 1>>>>>>>>)},
     Geometries |-> {Slice(<<>>), Slice(<<NewPointG(Slice(<<2, 1>>))>>)}]

\* Geometry values with the Type and the selected payload field of g0 and
\* something else in one of the other fields
Variants(g0) ==
    {[g0 EXCEPT ![f] = x] :
        <<f, x>> \in UNION {{f} \X FieldSamples[f] :
                              f \in PayloadFields \ SelectedField(g0.Type)}}

\* C13: what MarshalBSON encodes is a function of Type and of the payload
\* field Type selects: toPureGeometry gives the same struct, and the
\* encoding the same document, for the Geometry, for the Geometry with its
\* other fields cleared and for the Geometry with other data in them; each
\* key of the struct holds nothing or the selected field; and the Geometry
\* is left as it was.
C13_EncodeSelectedOnly ==
    [][op' = "MarshalBSON" =>
          /\ g' = g
          /\ toPureGeometry(g) = toPureGeometry(Projection(g))
          /\ \A g2 \in Variants(g) :
                /\ toPureGeometry(g2) = toPureGeometry(g)
                /\ MarshalDocument(g2, driver) = MarshalDocument(g, driver)
          /\ LET geo == toPureGeometry(g) IN
                \A key \in {"Coordinates", "Geometries"} :
                    \/ geo[key].isnil
                    \/ \E f \in SelectedField(g.Type) : geo[key].val = g[f]
          /\ wire' = Data(MarshalDocument(Projection(g), driver))]_vars

C13_Witness ==
    /\ op = "MarshalBSON"
    /\ g.Type = GeometryCollection
    /\ "Point" \in Populated(g)
    /\ Len(g.Geometries.s) > 0
    /\ Keys(wire.doc) = <<"type", "geometries">>
    /\ wire = Data(MarshalDocument(Projection(g), driver))

====
